---- MODULE Spec2Model ----
(***************************************************************************)
(* Server actions of the invoice dashboard (src/unnamed/part_000):         *)
(* authenticate, createInvoice, updateInvoice and deleteInvoice, together  *)
(* with the invoices table they write and the framework calls they make    *)
(* (sql, revalidatePath, redirect, signIn, console.error).                 *)
(*                                                                         *)
(* The server has no lock: a call runs until its await (of the SQL         *)
(* statement, or of signIn) and other calls may start, and their           *)
(* statements settle, before it resumes.  A call is therefore two steps:   *)
(* the code up to the await, and the code from the settled await to the    *)
(* return, which run without interruption.                                 *)
(***************************************************************************)
EXTENDS Integers, Sequences, FiniteSets, TLC

(* ---------------------------------------------------------------------- *)
(* Bounds                                                                  *)
(* ---------------------------------------------------------------------- *)

\* Number of ids the database hands out (INSERTs that can succeed).
MaxRows == 2

(* ---------------------------------------------------------------------- *)
(* Values of a form field: FormData holds strings and Files; a field that  *)
(* was not submitted reads as undefined after Object.fromEntries.          *)
(* The text of an amount field is a sequence of characters, so that        *)
(* Number() has something to parse.  A character is a one-letter string;   *)
(* a character with no TLA+ escape is written by its code point, as in     *)
(* "U+00A0".                                                               *)
(* ---------------------------------------------------------------------- *)

Undefined == [t |-> "undefined"]
File == [t |-> "file"]
Str(s) == [t |-> "string", s |-> s]

IsString(v) == v.t = "string"

(* ---------------------------------------------------------------------- *)
(* Natural numbers of any size, for the 53-bit significands of doubles:    *)
(* a sequence of limbs below Base, least significant first, without a      *)
(* zero as its last limb (zero is the empty sequence).                     *)
(* ---------------------------------------------------------------------- *)

Base == 10000

Max(S) == CHOOSE i \in S : \A j \in S : j <= i
Min(S) == CHOOSE i \in S : \A j \in S : i <= j

\* a without zeros as its last limbs.
BigNorm(a) ==
    LET nz == {i \in 1..Len(a) : a[i] # 0}
    IN  IF nz = {} THEN <<>> ELSE SubSeq(a, 1, Max(nz))

RECURSIVE BigFromInt(_)
BigFromInt(n) ==
    IF n = 0 THEN <<>> ELSE <<n % Base>> \o BigFromInt(n \div Base)

\* -1, 0 or 1 as a is less than, equal to or greater than b.
BigCmp(a, b) ==
    IF Len(a) < Len(b) THEN -1
    ELSE IF Len(a) > Len(b) THEN 1
    ELSE LET diff == {i \in 1..Len(a) : a[i] # b[i]}
         IN  IF diff = {} THEN 0
             ELSE IF a[Max(diff)] < b[Max(diff)] THEN -1 ELSE 1

Limb(a, i) == IF i <= Len(a) THEN a[i] ELSE 0

\* The operations on limbs i..j work on the two halves of the range, the
\* carry going from the first half worked on to the second: s is the
\* limbs of the result, c the carry out.
RECURSIVE AddRange(_, _, _, _, _)
AddRange(a, b, i, j, c) ==
    IF i = j
    THEN LET v == Limb(a, i) + Limb(b, i) + c
         IN  [s |-> <<v % Base>>, c |-> v \div Base]
    ELSE LET mid == (i + j) \div 2
             low == AddRange(a, b, i, mid, c)
             high == AddRange(a, b, mid + 1, j, low.c)
         IN  [s |-> low.s \o high.s, c |-> high.c]

BigAdd(a, b) ==
    LET n == IF Len(a) > Len(b) THEN Len(a) ELSE Len(b)
        r == AddRange(a, b, 1, n, 0)
    IN  IF n = 0 THEN <<>> ELSE BigNorm(Append(r.s, r.c))

RECURSIVE SubRange(_, _, _, _, _)
SubRange(a, b, i, j, c) ==
    IF i = j
    THEN LET v == Limb(a, i) - Limb(b, i) - c
         IN  [s |-> <<IF v < 0 THEN v + Base ELSE v>>,
              c |-> IF v < 0 THEN 1 ELSE 0]
    ELSE LET mid == (i + j) \div 2
             low == SubRange(a, b, i, mid, c)
             high == SubRange(a, b, mid + 1, j, low.c)
         IN  [s |-> low.s \o high.s, c |-> high.c]

\* a - b, for a >= b.
BigSub(a, b) ==
    IF a = <<>> THEN <<>> ELSE BigNorm(SubRange(a, b, 1, Len(a), 0).s)

RECURSIVE MulRange(_, _, _, _, _)
MulRange(a, k, i, j, c) ==
    IF i = j
    THEN LET v == a[i] * k + c
         IN  [s |-> <<v % Base>>, c |-> v \div Base]
    ELSE LET mid == (i + j) \div 2
             low == MulRange(a, k, i, mid, c)
             high == MulRange(a, k, mid + 1, j, low.c)
         IN  [s |-> low.s \o high.s, c |-> high.c]

\* a * k, for 0 <= k <= Base.
BigMulSmall(a, k) ==
    LET r == MulRange(a, k, 1, Len(a), 0)
    IN  IF a = <<>> THEN <<>> ELSE BigNorm(Append(r.s, r.c))

BigDouble(a) == BigMulSmall(a, 2)

\* Division of limbs i..j by k, from the last limb down; c is the
\* remainder carried in and out.
RECURSIVE DivRange(_, _, _, _, _)
DivRange(a, k, i, j, c) ==
    IF i = j
    THEN LET v == c * Base + a[i]
         IN  [s |-> <<v \div k>>, c |-> v % k]
    ELSE LET mid == (i + j) \div 2
             high == DivRange(a, k, mid + 1, j, c)
             low == DivRange(a, k, i, mid, high.c)
         IN  [s |-> low.s \o high.s, c |-> low.c]

\* a divided by k, rounded down, for 0 < k <= 16.
BigDivSmall(a, k) ==
    IF a = <<>> THEN <<>> ELSE BigNorm(DivRange(a, k, 1, Len(a), 0).s)

BigHalf(a) == BigDivSmall(a, 2)

BigIsOdd(a) == a # <<>> /\ a[1] % 2 = 1

\* a * 2^n, at most thirteen doublings in one multiplication
\* (2^13 = 8192 is below Base).
RECURSIVE BigTimesPow2(_, _)
BigTimesPow2(a, n) ==
    IF n <= 13 THEN BigMulSmall(a, 2 ^ n)
    ELSE LET half == BigTimesPow2(a, n \div 2)
         IN  IF half = <<>> THEN half ELSE BigTimesPow2(half, n - n \div 2)

\* a * 10^n: a limb is four decimal digits.
BigTimesPow10(a, n) ==
    IF a = <<>> THEN a
    ELSE [i \in 1..(n \div 4) |-> 0] \o BigMulSmall(a, 10 ^ (n % 4))

\* The largest d in lo..hi with den * d <= cur.
RECURSIVE QuotientDigit(_, _, _, _)
QuotientDigit(cur, den, lo, hi) ==
    IF lo = hi THEN lo
    ELSE LET mid == (lo + hi + 1) \div 2
         IN  IF BigCmp(BigMulSmall(den, mid), cur) <= 0
             THEN QuotientDigit(cur, den, mid, hi)
             ELSE QuotientDigit(cur, den, lo, mid - 1)

\* One step of long division: the quotient q and remainder r so far take
\* in limb i of the dividend.
DivStep(num, den, st) ==
    LET cur == BigNorm(<<num[st.i]>> \o st.r)
        d == QuotientDigit(cur, den, 0, Base - 1)
    IN  [i |-> st.i - 1,
         q |-> BigNorm(<<d>> \o st.q),
         r |-> BigSub(cur, BigMulSmall(den, d))]

RECURSIVE DivFrom(_, _, _)
DivFrom(num, den, st) ==
    IF st.i = 0 THEN st ELSE DivFrom(num, den, DivStep(num, den, st))

\* Quotient q and remainder r of num by den (den > 0).  The last limbs of
\* num, one fewer than den has, are below den: they are the first
\* remainder.
BigDivMod(num, den) ==
    LET skip == IF Len(num) >= Len(den) THEN Len(den) - 1 ELSE Len(num)
    IN  DivFrom(num, den,
                [i |-> Len(num) - skip,
                 q |-> <<>>,
                 r |-> BigNorm(SubSeq(num, Len(num) - skip + 1, Len(num)))])

\* Number of decimal digits of a (0 for zero).
BigDecimalLength(a) ==
    IF a = <<>> THEN 0
    ELSE LET top == a[Len(a)]
         IN  4 * (Len(a) - 1)
               + (IF top >= 1000 THEN 4 ELSE IF top >= 100 THEN 3
                  ELSE IF top >= 10 THEN 2 ELSE 1)

(* ---------------------------------------------------------------------- *)
(* JavaScript numbers (IEEE 754 binary64).  A number is NaN, an infinity   *)
(* or the finite value (-1)^neg * m * 2^e with m a natural number that is  *)
(* odd, or zero with e = 0: equal numbers are equal records.               *)
(* ---------------------------------------------------------------------- *)

NaN == [k |-> "nan", neg |-> FALSE, m |-> <<>>, e |-> 0]
Infinite(neg) == [k |-> "inf", neg |-> neg, m |-> <<>>, e |-> 0]
Zero(neg) == [k |-> "fin", neg |-> neg, m |-> <<>>, e |-> 0]

\* The record of the finite number m * 2^e: factors of two move from m to
\* e, four at a time while m is a multiple of 16 (Base is one).
RECURSIVE Canonical(_, _, _)
Canonical(neg, m, e) ==
    IF m = <<>> THEN Zero(neg)
    ELSE IF m[1] % 16 = 0 THEN Canonical(neg, BigDivSmall(m, 16), e + 4)
    ELSE IF m[1] % 2 = 0 THEN Canonical(neg, BigHalf(m), e + 1)
    ELSE [k |-> "fin", neg |-> neg, m |-> m, e |-> e]

\* 2^52 and 2^53, the bounds of a normal significand.
TwoTo52 == BigTimesPow2(<<1>>, 52)
TwoTo53 == BigDouble(TwoTo52)

\* The value is (num / den) * 2^e throughout.  While num / den >= 2^53:
\* double den.  lo is den * 2^52.
RECURSIVE ScaleDown(_, _, _, _)
ScaleDown(num, den, lo, e) ==
    IF BigCmp(num, BigDouble(lo)) >= 0
    THEN ScaleDown(num, BigDouble(den), BigDouble(lo), e + 1)
    ELSE [num |-> num, den |-> den, lo |-> lo, e |-> e]

\* While num / den < 2^52 and the exponent is above that of the
\* subnormals: double num.
RECURSIVE ScaleUp(_)
ScaleUp(s) ==
    IF BigCmp(s.num, s.lo) < 0 /\ s.e > -1074
    THEN ScaleUp([s EXCEPT !.num = BigDouble(s.num), !.e = s.e - 1])
    ELSE s

\* A first scaling by 2^s, s estimated from the decimal lengths (3322 /
\* 1000 bits to a digit) and kept above the exponent of the subnormals;
\* ScaleDown and ScaleUp then finish in a few steps.
PreScale(num, den, e0) ==
    LET est == ((BigDecimalLength(num) - BigDecimalLength(den)) * 3322) \div 1000 - 53
        s == IF est + e0 < -1074 THEN -1074 - e0 ELSE est
    IN  IF s >= 0
        THEN [num |-> num, den |-> BigTimesPow2(den, s), e |-> e0 + s]
        ELSE [num |-> BigTimesPow2(num, 0 - s), den |-> den, e |-> e0 + s]

\* The quotient d.q of the division by den, moved to the nearest natural
\* number, to the even one when the remainder d.r is half of den.
RoundQuotient(d, den) ==
    IF \/ BigCmp(BigDouble(d.r), den) > 0
       \/ BigCmp(BigDouble(d.r), den) = 0 /\ BigIsOdd(d.q)
    THEN BigAdd(d.q, <<1>>)
    ELSE d.q

\* The double q * 2^e for a rounded significand q <= 2^53: an infinity
\* when it is 2^1024 or more.
Finite(neg, q, e) ==
    IF e > 971 \/ (e = 971 /\ BigCmp(q, TwoTo53) >= 0)
    THEN Infinite(neg)
    ELSE Canonical(neg, q, e)

\* The double nearest to (s.num / s.den) * 2^(s.e), which is scaled.
RoundScaled(neg, s) ==
    Finite(neg, RoundQuotient(BigDivMod(s.num, s.den), s.den), s.e)

Scaled(pre) ==
    ScaleUp(ScaleDown(pre.num, pre.den, BigTimesPow2(pre.den, 52), pre.e))

\* The double nearest to (num / den) * 2^e0, ties to even.
RoundToDouble(neg, num, den, e0) ==
    IF num = <<>> THEN Zero(neg)
    ELSE RoundScaled(neg, Scaled(PreScale(num, den, e0)))

\* The double of a natural number below 2^31.
FromInt(n) == RoundToDouble(FALSE, BigFromInt(n), <<1>>, 0)

\* n * k in double arithmetic, for a natural number k <= Base: the exact
\* product, rounded.
Times(n, k) ==
    IF n.k = "nan" THEN NaN
    ELSE IF n.k = "inf" THEN IF k = 0 THEN NaN ELSE n
    ELSE RoundToDouble(n.neg, BigMulSmall(n.m, k), <<1>>, n.e)

GreaterThanZero(n) ==
    \/ n.k = "inf" /\ ~n.neg
    \/ n.k = "fin" /\ ~n.neg /\ n.m # <<>>

(* ---------------------------------------------------------------------- *)
(* Number(text): StringToNumber of ECMAScript                              *)
(* ---------------------------------------------------------------------- *)

\* StrWhiteSpaceChar: white space and line terminators.
WhiteSpaceChars ==
    {"\t", "\n", "\f", "\r", " ", "U+000B", "U+00A0", "U+1680", "U+2000",
     "U+2001", "U+2002", "U+2003", "U+2004", "U+2005", "U+2006", "U+2007",
     "U+2008", "U+2009", "U+200A", "U+2028", "U+2029", "U+202F", "U+205F",
     "U+3000", "U+FEFF"}

IsWhiteSpace(c) == c \in WhiteSpaceChars

\* The text from its first character that is no white space.
TrimLeft(s) ==
    LET black == {i \in 1..Len(s) : ~IsWhiteSpace(s[i])}
    IN  IF black = {} THEN <<>> ELSE SubSeq(s, Min(black), Len(s))

\* The text up to its last character that is no white space.
TrimRight(s) ==
    LET black == {i \in 1..Len(s) : ~IsWhiteSpace(s[i])}
    IN  IF black = {} THEN <<>> ELSE SubSeq(s, 1, Max(black))

Trim(s) == TrimRight(TrimLeft(s))

\* The value of a digit in base 16 (which covers bases 2, 8 and 10), or
\* 16 for a character that is no digit.
DigitValue(c) ==
    CASE c = "0" -> 0 [] c = "1" -> 1 [] c = "2" -> 2 [] c = "3" -> 3
      [] c = "4" -> 4 [] c = "5" -> 5 [] c = "6" -> 6 [] c = "7" -> 7
      [] c = "8" -> 8 [] c = "9" -> 9
      [] c \in {"a", "A"} -> 10 [] c \in {"b", "B"} -> 11
      [] c \in {"c", "C"} -> 12 [] c \in {"d", "D"} -> 13
      [] c \in {"e", "E"} -> 14 [] c \in {"f", "F"} -> 15
      [] OTHER -> 16

IsDigit(c, base) == DigitValue(c) < base

AllDigits(s, base) == \A i \in 1..Len(s) : IsDigit(s[i], base)

\* The natural number written by the digits s in the base, for a text of
\* at most four digits.
RECURSIVE SmallValue(_, _)
SmallValue(s, base) ==
    IF s = <<>> THEN 0
    ELSE SmallValue(SubSeq(s, 1, Len(s) - 1), base) * base + DigitValue(s[Len(s)])

\* Decimal digits: a limb is four of them, counted from the end.
DecimalValue(s) ==
    BigNorm([i \in 1..((Len(s) + 3) \div 4) |->
                SmallValue(SubSeq(s, IF Len(s) - 4 * i + 1 < 1 THEN 1
                                     ELSE Len(s) - 4 * i + 1,
                                  Len(s) - 4 * (i - 1)), 10)])

\* Digits in base 2^bits: the value of the first half of the text, times
\* the base to the length of the second half, plus the value of the
\* second half.
RECURSIVE BinaryValue(_, _)
BinaryValue(s, bits) ==
    IF Len(s) <= 1 THEN BigFromInt(SmallValue(s, 2 ^ bits))
    ELSE LET mid == Len(s) \div 2
         IN  BigAdd(BigTimesPow2(BinaryValue(SubSeq(s, 1, mid), bits),
                                 bits * (Len(s) - mid)),
                    BinaryValue(SubSeq(s, mid + 1, Len(s)), bits))

\* The natural number written by the digits s in base 2, 8, 10 or 16.
DigitsValue(s, base) ==
    CASE base = 10 -> DecimalValue(s)
      [] base = 16 -> BinaryValue(s, 4)
      [] base = 8 -> BinaryValue(s, 3)
      [] base = 2 -> BinaryValue(s, 1)

\* Position of the first character of s that is in cs, or 0.
FirstOf(s, cs) ==
    IF \E i \in 1..Len(s) : s[i] \in cs
    THEN CHOOSE i \in 1..Len(s) : s[i] \in cs /\ \A j \in 1..(i - 1) : s[j] \notin cs
    ELSE 0

\* A whole number of any size with its sign: [neg, x], x a natural number.
\* The value of the digits of an exponent, however many there are.
ExponentValue(s) == DigitsValue(s, 10)

\* ExponentPart without its e: [sign] digits.  [ok, neg, x]: the exponent
\* is x, or minus x when neg.
ExponentPart(s) ==
    LET signed == s # <<>> /\ Head(s) \in {"+", "-"}
        digits == IF signed THEN Tail(s) ELSE s
    IN  IF digits = <<>> \/ ~AllDigits(digits, 10)
        THEN [ok |-> FALSE, neg |-> FALSE, x |-> <<>>]
        ELSE [ok |-> TRUE,
              neg |-> signed /\ Head(s) = "-",
              x |-> ExponentValue(digits)]

\* No exponent part: the exponent is 0.
NoExponent == [ok |-> TRUE, neg |-> FALSE, x |-> <<>>]

\* The exponent less the number of digits after the point.
LessDigits(exp, count) ==
    IF exp.neg \/ exp.x = <<>>
    THEN [neg |-> exp.x # <<>> \/ count > 0, x |-> BigAdd(exp.x, BigFromInt(count))]
    ELSE IF BigCmp(exp.x, BigFromInt(count)) >= 0
    THEN [neg |-> FALSE, x |-> BigSub(exp.x, BigFromInt(count))]
    ELSE [neg |-> TRUE, x |-> BigSub(BigFromInt(count), exp.x)]

\* A natural number below 10^12 as an integer.
BigToInt(a) == Limb(a, 1) + Limb(a, 2) * Base + Limb(a, 3) * Base * Base

\* The double nearest to d * 10^x.  A value of 10^310 or more is beyond
\* every double, one below 10^-330 rounds to zero.
DecimalToDouble(neg, d, x) ==
    LET len == BigDecimalLength(d)
    IN  IF d = <<>> THEN Zero(neg)
        ELSE IF x + len > 310 THEN Infinite(neg)
        ELSE IF x + len < -330 THEN Zero(neg)
        ELSE IF x >= 0 THEN RoundToDouble(neg, BigTimesPow10(d, x), <<1>>, 0)
        ELSE RoundToDouble(neg, d, BigTimesPow10(<<1>>, 0 - x), 0)

\* The double nearest to d * 10^sx for an exponent sx of any size: d is at
\* least 1 and below 10 to its number of digits, so that beyond 10^400, and
\* below 10^-400 after all the digits of d, the exponent decides alone.
DecimalScaled(neg, d, sx) ==
    IF d = <<>> THEN Zero(neg)
    ELSE IF ~sx.neg /\ BigCmp(sx.x, <<400>>) > 0 THEN Infinite(neg)
    ELSE IF sx.neg /\ BigCmp(sx.x, BigAdd(BigFromInt(BigDecimalLength(d)), <<400>>)) > 0
    THEN Zero(neg)
    ELSE DecimalToDouble(neg, d, IF sx.neg THEN 0 - BigToInt(sx.x) ELSE BigToInt(sx.x))

\* The text before position i, and the text after it; all of the text,
\* and none, when i is 0.
Before(s, i) == IF i = 0 THEN s ELSE SubSeq(s, 1, i - 1)
After(s, i) == IF i = 0 THEN <<>> ELSE SubSeq(s, i + 1, Len(s))

\* digits [. [digits]] or . digits, with the exponent part already read.
DecimalDigits(neg, int, frac, exp) ==
    IF /\ exp.ok
       /\ AllDigits(int, 10)
       /\ AllDigits(frac, 10)
       /\ Len(int) + Len(frac) > 0
    THEN DecimalScaled(neg, DigitsValue(int \o frac, 10), LessDigits(exp, Len(frac)))
    ELSE NaN

Mantissa(neg, mant, exp) ==
    DecimalDigits(neg, Before(mant, FirstOf(mant, {"."})),
                  After(mant, FirstOf(mant, {"."})), exp)

\* StrUnsignedDecimalLiteral: Infinity, or digits [. [digits]] [exponent],
\* or . digits [exponent].
UnsignedDecimal(s, neg) ==
    IF s = <<"I", "n", "f", "i", "n", "i", "t", "y">> THEN Infinite(neg)
    ELSE Mantissa(neg, Before(s, FirstOf(s, {"e", "E"})),
                  IF FirstOf(s, {"e", "E"}) = 0 THEN NoExponent
                  ELSE ExponentPart(After(s, FirstOf(s, {"e", "E"}))))

\* NonDecimalIntegerLiteral: 0x, 0o or 0b and digits of that base.
NonDecimalBase(t) ==
    IF Len(t) < 3 \/ t[1] # "0" THEN 0
    ELSE LET base == CASE t[2] \in {"x", "X"} -> 16
                       [] t[2] \in {"o", "O"} -> 8
                       [] t[2] \in {"b", "B"} -> 2
                       [] OTHER -> 0
         IN  IF base # 0 /\ AllDigits(SubSeq(t, 3, Len(t)), base) THEN base ELSE 0

\* StrNumericLiteral, for a text t without white space around it.
NumericLiteral(t) ==
    IF t = <<>> THEN Zero(FALSE)
    ELSE IF NonDecimalBase(t) # 0
    THEN RoundToDouble(FALSE,
                       DigitsValue(SubSeq(t, 3, Len(t)), NonDecimalBase(t)),
                       <<1>>, 0)
    ELSE UnsignedDecimal(IF Head(t) \in {"+", "-"} THEN Tail(t) ELSE t,
                         Head(t) = "-")

\* Number(text): white space is trimmed, the empty text is 0, a text that
\* is no numeric literal is NaN.
StringToNumber(s) == NumericLiteral(Trim(s))

\* Number(data.amount) for the value of a form field: the text of a string
\* is parsed; undefined, and a File (converted through its text
\* "[object File]"), give NaN.
Number(v) == IF IsString(v) THEN StringToNumber(v.s) ELSE NaN

(* ---------------------------------------------------------------------- *)
(* Inputs                                                                  *)
(* ---------------------------------------------------------------------- *)

CustomerInputs == {Undefined, File, Str("c1")}

AmountInputs ==
    {Undefined,
     File,
     Str(<<>>),
     Str(<<" ">>),
     Str(<<"a">>),
     Str(<<"0">>),
     Str(<<"-", "0">>),
     Str(<<"-", "5">>),
     Str(<<"5">>),
     Str(<<"+", "5">>),
     Str(<<" ", "1", ".", "5", " ">>),
     Str(<<"\t", "5">>),
     Str(<<"5", "\n">>),
     Str(<<"U+00A0", "5", "U+FEFF">>),
     Str(<<"5", ".">>),
     Str(<<".", "5">>),
     Str(<<".">>),
     Str(<<"1", ".", "1">>),
     Str(<<"1", ".", "1", "0">>),
     Str(<<"4", ".", "3", "5">>),
     Str(<<"1", "9", ".", "9", "9">>),
     Str(<<"0", ".", "0", "7">>),
     Str(<<"1", "e", "3">>),
     Str(<<"1", "E", "2">>),
     Str(<<"1", "5", "e", "-", "1">>),
     Str(<<"1", "e">>),
     Str(<<"1", "e", "-", "4", "0", "0">>),
     Str(<<"1", "e", "4", "0", "0">>),
     Str(<<"0", "x", "1", "0">>),
     Str(<<"0", "o", "1", "7">>),
     Str(<<"0", "b", "1", "1">>),
     Str(<<"0", "x">>),
     Str(<<"-", "0", "x", "1", "0">>),
     Str(<<"I", "n", "f", "i", "n", "i", "t", "y">>),
     Str(<<"-", "I", "n", "f", "i", "n", "i", "t", "y">>),
     Str(<<"1", ",", "5">>),
     Str(<<"1", " ", "5">>),
     Str(<<"1", "e", "-", "1", "0", "0", "0", "0", "0", "6">>),
     Str(<<"0", ".", "0", "0", "0", "1", "e", "0", "0", "0", "0", "0", "0", "0", "4">>),
     Str(<<"1", "e", "9", "9", "9", "9", "9", "9", "9", "9", "9", "9", "9">>)}

StatusInputs == {Undefined, File, Str("pending"), Str("paid"), Str("overdue")}

\* The forms the schema is tried on.
SchemaForms ==
    [customerId : CustomerInputs, amount : AmountInputs, status : StatusInputs]

\* The forms submitted while calls overlap: two that meet the schema, one
\* with an amount that has no exact double, and two that do not meet it.
Forms ==
    {[customerId |-> Str("c1"), amount |-> Str(<<"5">>), status |-> Str("pending")],
     [customerId |-> Str("c1"), amount |-> Str(<<"1", ".", "1">>), status |-> Str("paid")],
     [customerId |-> Str("c1"), amount |-> Str(<<"5">>), status |-> Str("overdue")],
     [customerId |-> Undefined, amount |-> Str(<<"a">>), status |-> Undefined]}

\* The form of a call that takes none.
NoForm == [customerId |-> Undefined, amount |-> Undefined, status |-> Undefined]

\* new Date().toISOString().split('T')[0] at the time of the call.
Dates == {"2024-01-01", "2024-01-02"}

\* What signIn can throw: an AuthError (or a subclass) with its type, or
\* any other value (the framework's redirect signal among them).
ThrownBySignIn ==
    {[auth |-> TRUE, type |-> "CredentialsSignin"],
     [auth |-> TRUE, type |-> "CallbackRouteError"],
     [auth |-> FALSE, type |-> "CredentialsSignin"],
     [auth |-> FALSE, type |-> "NEXT_REDIRECT"]}

\* The calls that can be in progress at once.
Calls == {"a", "b"}

\* Number(data.amount) of the amounts above, and amount * 100 of those
\* numbers, worked out once.
NumberOfInput == [v \in AmountInputs |-> Number(v)]
HundredTimes == [n \in {NumberOfInput[v] : v \in AmountInputs} |-> Times(n, 100)]

ToNumber(v) == IF v \in AmountInputs THEN NumberOfInput[v] ELSE Number(v)

(* ---------------------------------------------------------------------- *)
(* FormSchema / InvoiceSchema (zod).  Each field yields the list of        *)
(* messages of its issues; flatten().fieldErrors has a key for exactly     *)
(* the fields with at least one issue.                                     *)
(* ---------------------------------------------------------------------- *)

StatusValues == {"pending", "paid"}

\* customerId: z.string({ invalid_type_error }).
customerIdIssues(v) ==
    IF IsString(v) THEN <<>>
    ELSE IF v = Undefined THEN <<"Required">>
    ELSE <<"Please select a customer.">>

\* Variant: the bound is inclusive (gte for gt).
amountIssuesGte(n) ==
    IF n.k = "nan" THEN <<"Expected number, received nan">>
    ELSE IF n.neg /\ (n.k = "inf" \/ n.m # <<>>)
    THEN <<"Please enter an amount greater than $0.">>
    ELSE <<>>

\* amount: z.coerce.number().gt(0, { message }).  The value reaching the
\* schema is already Number(data.amount); coercing a number leaves it as
\* it is.  NaN is an invalid_type issue and stops the checks of the field;
\* an infinity is a number.
amountIssues(n) ==
    IF n.k = "nan" THEN <<"Expected number, received nan">>
    ELSE IF ~GreaterThanZero(n) THEN <<"Please enter an amount greater than $0.">>
    ELSE <<>>

\* Variant: any string is taken as a status (z.string for z.enum).
statusIssuesAnyString(v) ==
    IF ~IsString(v)
    THEN IF v = Undefined THEN <<"Required">>
         ELSE <<"Please select an invoice status.">>
    ELSE <<>>

\* status: z.enum(['pending', 'paid'], { invalid_type_error }).
statusIssues(v) ==
    IF ~IsString(v)
    THEN IF v = Undefined THEN <<"Required">>
         ELSE <<"Please select an invoice status.">>
    ELSE IF v.s \notin StatusValues
    THEN <<"Invalid enum value. Expected 'pending' | 'paid', received '"
             \o v.s \o "'">>
    ELSE <<>>

FieldNames == {"customerId", "amount", "status"}

\* The object handed to safeParse, built from the form's entries.
RawFields(data) ==
    [customerId |-> data.customerId,
     amount |-> ToNumber(data.amount),
     status |-> data.status]

safeParse(raw) ==
    LET issues == [customerId |-> customerIdIssues(raw.customerId),
                   amount |-> amountIssues(raw.amount),
                   status |-> statusIssues(raw.status)]
        failed == {f \in FieldNames : issues[f] # <<>>}
    IN  IF failed = {}
        THEN [success |-> TRUE,
              data |-> [customerId |-> raw.customerId.s,
                        amount |-> raw.amount,
                        status |-> raw.status.s]]
        ELSE [success |-> FALSE,
              error |-> [fieldErrors |-> [f \in failed |-> issues[f]]]]

\* The value of validatedFields while no form has been parsed.
NotParsed == [success |-> FALSE, error |-> [fieldErrors |-> [f \in {} |-> <<>>]]]

(* ---------------------------------------------------------------------- *)
(* The invoices table and the three statements                             *)
(* ---------------------------------------------------------------------- *)

Ids == 1..MaxRows

\* const amountInCents = amount * 100, a product of doubles.
amountInCents(amount) ==
    IF amount \in DOMAIN HundredTimes THEN HundredTimes[amount]
    ELSE Times(amount, 100)

\* INSERT INTO invoices (customer_id, amount, status, date) VALUES (...):
\* the database supplies the id.
SqlInsert(table, newId, customerId, cents, status, date) ==
    table \cup {[id |-> newId, customer_id |-> customerId, amount |-> cents,
                 status |-> status, date |-> date]}

\* Variant: the WHERE clause is missing.
SqlUpdateNoWhere(table, rowId, customerId, cents, status) ==
    {[r EXCEPT !.customer_id = customerId, !.amount = cents, !.status = status] :
       r \in table}

\* UPDATE invoices SET customer_id, amount, status WHERE id = ...
SqlUpdate(table, rowId, customerId, cents, status) ==
    {IF r.id = rowId
     THEN [r EXCEPT !.customer_id = customerId, !.amount = cents,
                    !.status = status]
     ELSE r : r \in table}

\* DELETE FROM invoices WHERE id = ...
SqlDelete(table, rowId) == {r \in table : r.id # rowId}

NoStatement == [kind |-> "none"]

Execute(table, st, newId) ==
    CASE st.kind = "INSERT" ->
           SqlInsert(table, newId, st.customerId, st.amount, st.status, st.date)
      [] st.kind = "UPDATE" ->
           SqlUpdate(table, st.id, st.customerId, st.amount, st.status)
      [] st.kind = "DELETE" -> SqlDelete(table, st.id)

InvoicesPath == "/dashboard/invoices"

\* redirect(url) never returns: it throws the framework's redirect signal.
RedirectSignal(url) == [auth |-> FALSE, type |-> "NEXT_REDIRECT", url |-> url]

\* A rejected statement.
DatabaseError == [auth |-> FALSE, type |-> "DatabaseError"]

NoError == [auth |-> FALSE, type |-> "none"]

(* ---------------------------------------------------------------------- *)
(* Results of the actions                                                  *)
(* ---------------------------------------------------------------------- *)

NoResult == [kind |-> "none"]
Return(v) == [kind |-> "return", value |-> v]
Throw(thrown) == [kind |-> "throw", value |-> thrown]

MissingFieldsMessage(action) ==
    IF action = "createInvoice" THEN "Missing Fields. Failed to create Invoice."
    ELSE "Missing Fields. Failed to Update Invoice."

\* Variant: the early return carries the message without the errors.
MissingFieldsResultNoErrors(action, parsed) ==
    Return([t |-> "object", message |-> MissingFieldsMessage(action)])

\* The early return of createInvoice and updateInvoice.
MissingFieldsResult(action, parsed) ==
    Return([t |-> "object",
            errors |-> parsed.error.fieldErrors,
            message |-> MissingFieldsMessage(action)])

ConsoleLabel(action) ==
    CASE action = "createInvoice" -> "Create Invoice Error:"
      [] action = "updateInvoice" -> "Update Invoice Error:"
      [] action = "deleteInvoice" -> "Delete Invoice Error:"

DatabaseErrorMessage(action) ==
    CASE action = "createInvoice" -> "Database Error: Failed to create Invoice."
      [] action = "updateInvoice" -> "Database Error: Failed to Update Invoice."
      [] action = "deleteInvoice" -> "Database Error: Failed to Delete Invoice."

\* Variant: the catch block logs and rethrows.
CatchRethrows(action, thrown) == Throw(thrown)

\* The catch block of the three invoice actions: whatever was thrown in the
\* try block, the action returns its message.
CatchResult(action, thrown) ==
    Return([t |-> "object", message |-> DatabaseErrorMessage(action)])

DeletedResult == Return([t |-> "object", message |-> "Deleted Invoice"])

\* Variant: deleteInvoice redirects like the other two.
AfterRevalidateRedirects(action) == "redirect"

\* What follows revalidatePath in the try block.
AfterRevalidate(action) ==
    IF action = "deleteInvoice" THEN "return" ELSE "redirect"

\* Variant: the type is looked at without the instanceof test.
OnSignInErrorByType(thrown) ==
    IF thrown.type = "CredentialsSignin"
    THEN Return(Str("Invalid credentials. Please try again."))
    ELSE IF thrown.auth
    THEN Return(Str("Something went wrong. Please try again later."))
    ELSE Throw(thrown)

\* The catch block of authenticate.
OnSignInError(thrown) ==
    IF thrown.auth
    THEN IF thrown.type = "CredentialsSignin"
         THEN Return(Str("Invalid credentials. Please try again."))
         ELSE Return(Str("Something went wrong. Please try again later."))
    ELSE Throw(thrown)

(* ---------------------------------------------------------------------- *)
(* State                                                                   *)
(* ---------------------------------------------------------------------- *)

VARIABLES
    invoices,   \* the invoices table: a set of rows
    nextId,     \* the id the database gives the next inserted row
    submitted,  \* per id, the amount field of the form that last wrote the row
    calls       \* per call, its frame: where it stands and its locals

vars == <<invoices, nextId, submitted, calls>>

db == <<invoices, nextId, submitted>>

\* The frame of a call that is not in progress.  pc is where the call
\* stands: "idle", awaiting "sql" or "signIn", or "done" with its result
\* on the way to the caller; trace lists the calls it has made, in order.
Idle ==
    [pc |-> "idle",
     op |-> "none",
     id |-> 0,
     formData |-> NoForm,
     validatedFields |-> NotParsed,
     stmt |-> NoStatement,
     trace |-> <<>>,
     error |-> NoError,
     result |-> NoResult]

Init ==
    /\ invoices = {}
    /\ nextId = 1
    /\ submitted = [i \in Ids |-> Undefined]
    /\ calls = [c \in Calls |-> Idle]

\* The entry safeParse leaves in the trace.
ParseEvent(parsed) ==
    <<"safeParse", IF parsed.success THEN "success" ELSE "failure">>

\* The statement of createInvoice (lines 64-72) and of updateInvoice
\* (lines 98-106), from the validated fields.
Statement(action, i, data, date) ==
    IF action = "createInvoice"
    THEN [kind |-> "INSERT",
          customerId |-> data.customerId,
          amount |-> amountInCents(data.amount),
          status |-> data.status,
          date |-> date]
    ELSE [kind |-> "UPDATE",
          id |-> i,
          customerId |-> data.customerId,
          amount |-> amountInCents(data.amount),
          status |-> data.status]

\* The frame of createInvoice or updateInvoice at its first pause: returned
\* early with the errors, or awaiting its statement.
AfterParse(action, i, form, parsed, date) ==
    IF ~parsed.success
    THEN [Idle EXCEPT !.pc = "done",
                      !.op = action,
                      !.id = i,
                      !.formData = form,
                      !.validatedFields = parsed,
                      !.trace = <<ParseEvent(parsed)>>,
                      !.result = MissingFieldsResult(action, parsed)]
    ELSE [Idle EXCEPT !.pc = "sql",
                      !.op = action,
                      !.id = i,
                      !.formData = form,
                      !.validatedFields = parsed,
                      !.stmt = Statement(action, i, parsed.data, date),
                      !.trace = <<ParseEvent(parsed),
                                  <<"sql", IF action = "createInvoice"
                                           THEN "INSERT" ELSE "UPDATE">>>>]

(* ---------------------------------------------------------------------- *)
(* createInvoice, updateInvoice: lines 49-69 and 83-102, up to the await   *)
(* ---------------------------------------------------------------------- *)

CreateInvoice(c, form, date) ==
    /\ calls[c].pc = "idle"
    /\ calls' = [calls EXCEPT ![c] =
                   AfterParse("createInvoice", 0, form,
                              safeParse(RawFields(form)), date)]
    /\ UNCHANGED db

\* updateInvoice takes no date: the one handed to AfterParse is not used.
UpdateInvoice(c, i, form) ==
    /\ calls[c].pc = "idle"
    /\ calls' = [calls EXCEPT ![c] =
                   AfterParse("updateInvoice", i, form,
                              safeParse(RawFields(form)), "")]
    /\ UNCHANGED db

(* deleteInvoice: lines 117-119, up to the await *)
DeleteInvoice(c, i) ==
    /\ calls[c].pc = "idle"
    /\ calls' = [calls EXCEPT ![c] =
                   [Idle EXCEPT !.pc = "sql",
                                !.op = "deleteInvoice",
                                !.id = i,
                                !.stmt = [kind |-> "DELETE", id |-> i],
                                !.trace = <<<<"sql", "DELETE">>>>]]
    /\ UNCHANGED db

(* ---------------------------------------------------------------------- *)
(* From the settled statement to the return: the rest of the try block     *)
(* and the catch block                                                     *)
(* ---------------------------------------------------------------------- *)

\* The call goes through its catch block with what was thrown:
\* console.error(...); return { message }.
Caught(frame, thrown) ==
    [frame EXCEPT !.pc = "done",
                  !.error = thrown,
                  !.trace = Append(@, <<"console.error", ConsoleLabel(frame.op)>>),
                  !.result = CatchResult(frame.op, thrown)]

\* The statement has succeeded: revalidatePath('/dashboard/invoices'), then
\* deleteInvoice returns, and the other two call redirect, which throws its
\* signal inside the try block.
Resolved(frame) ==
    LET revalidated ==
          [frame EXCEPT !.trace = @ \o <<<<"resolved", frame.stmt.kind>>,
                                         <<"revalidatePath", InvoicesPath>>>>]
    IN  IF AfterRevalidate(frame.op) = "return"
        THEN [revalidated EXCEPT !.pc = "done", !.result = DeletedResult]
        ELSE Caught([revalidated EXCEPT
                       !.trace = Append(@, <<"redirect", InvoicesPath>>)],
                    RedirectSignal(InvoicesPath))

\* The statement has failed: the await throws.
Rejected(frame) ==
    Caught([frame EXCEPT !.trace = Append(@, <<"rejected", frame.stmt.kind>>)],
           DatabaseError)

\* The form amount written with the rows, for a statement that succeeded.
Submitted(table, frame) ==
    [i \in Ids |->
       CASE frame.stmt.kind = "INSERT" /\ i = nextId -> frame.formData.amount
         [] frame.stmt.kind = "UPDATE" /\ i = frame.stmt.id
              /\ (\E r \in table : r.id = i) -> frame.formData.amount
         [] frame.stmt.kind = "DELETE" /\ i = frame.stmt.id -> Undefined
         [] OTHER -> submitted[i]]

\* The statement of call c succeeds and takes effect, and the call runs on
\* to its return.  An INSERT needs a free id.
SqlResolves(c) ==
    /\ calls[c].pc = "sql"
    /\ calls[c].stmt.kind = "INSERT" => nextId <= MaxRows
    /\ invoices' = Execute(invoices, calls[c].stmt, nextId)
    /\ nextId' = IF calls[c].stmt.kind = "INSERT" THEN nextId + 1 ELSE nextId
    /\ submitted' = Submitted(invoices, calls[c])
    /\ calls' = [calls EXCEPT ![c] = Resolved(@)]

\* The statement of call c fails: nothing is written.
SqlRejects(c) ==
    /\ calls[c].pc = "sql"
    /\ calls' = [calls EXCEPT ![c] = Rejected(@)]
    /\ UNCHANGED db

(* ---------------------------------------------------------------------- *)
(* authenticate                                                            *)
(* ---------------------------------------------------------------------- *)

Authenticate(c) ==
    /\ calls[c].pc = "idle"
    /\ calls' = [calls EXCEPT ![c] =
                   [Idle EXCEPT !.pc = "signIn",
                                !.op = "authenticate",
                                !.trace = <<<<"signIn", "credentials">>>>]]
    /\ UNCHANGED db

\* signIn completes: the function ends without a return statement.
SignInResolves(c) ==
    /\ calls[c].pc = "signIn"
    /\ calls' = [calls EXCEPT ![c] =
                   [@ EXCEPT !.pc = "done", !.result = Return(Undefined)]]
    /\ UNCHANGED db

SignInThrows(c, thrown) ==
    /\ calls[c].pc = "signIn"
    /\ calls' = [calls EXCEPT ![c] =
                   [@ EXCEPT !.pc = "done",
                             !.error = thrown,
                             !.result = OnSignInError(thrown)]]
    /\ UNCHANGED db

(* ---------------------------------------------------------------------- *)

\* The result of call c has gone to its caller; c stands for the next call.
Respond(c) ==
    /\ calls[c].pc = "done"
    /\ calls' = [calls EXCEPT ![c] = Idle]
    /\ UNCHANGED db

Next ==
    \E c \in Calls :
      \/ \E form \in Forms, date \in Dates : CreateInvoice(c, form, date)
      \/ \E i \in Ids, form \in Forms : UpdateInvoice(c, i, form)
      \/ \E i \in Ids : DeleteInvoice(c, i)
      \/ SqlResolves(c)
      \/ SqlRejects(c)
      \/ Authenticate(c)
      \/ SignInResolves(c)
      \/ \E thrown \in ThrownBySignIn : SignInThrows(c, thrown)
      \/ Respond(c)

Spec == Init /\ [][Next]_vars

\* The schema on its own: one caller submits every form of SchemaForms, and
\* the database refuses the statements, so that the table stays empty.
SchemaCaller == "a"
SchemaDate == "2024-01-01"

SchemaNext ==
    \/ \E form \in SchemaForms : CreateInvoice(SchemaCaller, form, SchemaDate)
    \/ \E i \in Ids, form \in SchemaForms : UpdateInvoice(SchemaCaller, i, form)
    \/ SqlRejects(SchemaCaller)
    \/ Respond(SchemaCaller)

SchemaSpec == Init /\ [][SchemaNext]_vars

(* ====================================================================== *)
(* Properties                                                              *)
(* ====================================================================== *)

FormActions == {"createInvoice", "updateInvoice"}
InvoiceActions == {"createInvoice", "updateInvoice", "deleteInvoice"}

\* Places in the trace of a call where `name` was called.
Positions(frame, name) ==
    {i \in 1..Len(frame.trace) : frame.trace[i][1] = name}
Called(frame, name) == Positions(frame, name) # {}
\* Every call of a comes after some call of b.
OnlyAfter(frame, a, b) ==
    \A i \in Positions(frame, a) : \E j \in Positions(frame, b) : j < i
PassedValidationBefore(frame, i) ==
    \E j \in 1..(i - 1) : frame.trace[j] = <<"safeParse", "success">>

\* Call c starts, goes on from its settled statement, in this step.
Starts(c) == calls[c].pc = "idle" /\ calls'[c].pc # "idle"
Settles(c) == calls[c].pc = "sql" /\ calls'[c].pc = "done"

\* The schema's conditions, field by field, on the form as submitted.
IsPositive(n) == n.k # "nan" /\ ~n.neg /\ (n.k = "inf" \/ n.m # <<>>)
CustomerIdAccepted(f) == f.customerId.t = "string"
AmountAccepted(f) == IsPositive(ToNumber(f.amount))
StatusAccepted(f) == f.status \in {Str("pending"), Str("paid")}
MeetsSchema(f) == CustomerIdAccepted(f) /\ AmountAccepted(f) /\ StatusAccepted(f)
FailedFields(f) ==
    {n \in {"customerId"} : ~CustomerIdAccepted(f)}
      \cup {n \in {"amount"} : ~AmountAccepted(f)}
      \cup {n \in {"status"} : ~StatusAccepted(f)}

\* Amounts that are missing, empty, not numeric, zero or negative.
NoAmount ==
    {Undefined, Str(<<>>), Str(<<" ">>), Str(<<"a">>), Str(<<"1", ",", "5">>),
     Str(<<"1", "e">>), Str(<<"0", "x">>), Str(<<".">>), Str(<<"0">>),
     Str(<<"-", "0">>), Str(<<"-", "5">>),
     Str(<<"-", "I", "n", "f", "i", "n", "i", "t", "y">>)}

\* Amounts that Number() converts to a number above 0.
PositiveAmount ==
    {Str(<<"5">>), Str(<<"+", "5">>), Str(<<" ", "1", ".", "5", " ">>),
     Str(<<"\t", "5">>), Str(<<"5", "\n">>), Str(<<"1", ".", "1">>),
     Str(<<"1", "9", ".", "9", "9">>), Str(<<".", "5">>), Str(<<"5", ".">>),
     Str(<<"1", "e", "3">>), Str(<<"1", "E", "2">>), Str(<<"0", "x", "1", "0">>),
     Str(<<"0", "o", "1", "7">>), Str(<<"0", "b", "1", "1">>)}

\* The value d / 10^f written by a text of digits with at most one point.
DecimalAt(t, dot) ==
    [d |-> DigitsValue(Before(t, dot) \o After(t, dot), 10),
     f |-> Len(After(t, dot))]
DecimalOf(t) == DecimalAt(t, FirstOf(t, {"."}))

\* The number n is exactly 100 times the decimal dec: n = m * 2^e and
\* m * 2^e * 10^f = 100 * d.
HundredTimesDecimal(n, dec) ==
    /\ n.k = "fin"
    /\ ~n.neg
    /\ IF n.e >= 0
       THEN BigTimesPow10(BigTimesPow2(n.m, n.e), dec.f) = BigMulSmall(dec.d, 100)
       ELSE BigTimesPow10(n.m, dec.f) = BigTimesPow2(BigMulSmall(dec.d, 100), 0 - n.e)

\* C1: after createInvoice or updateInvoice with a valid form and a
\* successful statement, the cache of /dashboard/invoices is invalidated and
\* the call ends with the redirect reaching the caller, not with a returned
\* 'Database Error' message.
C1_SuccessEndsInRedirect ==
    \A c \in Calls :
      (calls[c].pc = "done" /\ calls[c].op \in FormActions
         /\ Called(calls[c], "resolved"))
        => /\ \E i \in 1..Len(calls[c].trace) :
                calls[c].trace[i] = <<"revalidatePath", "/dashboard/invoices">>
           /\ calls[c].result = Throw(RedirectSignal("/dashboard/invoices"))

\* C2: when the form fails validation, createInvoice and updateInvoice
\* return the per-field errors with their 'Missing Fields' message in the
\* step in which they are called: no statement is issued, nothing is
\* revalidated, nothing redirects and the table is as it was.
C2_InvalidFormReturnsErrors ==
    [][\A c \in Calls :
         (Starts(c) /\ calls'[c].op \in FormActions
            /\ ~MeetsSchema(calls'[c].formData))
           => /\ calls'[c].pc = "done"
              /\ ~calls'[c].validatedFields.success
              /\ calls'[c].validatedFields.error.fieldErrors # <<>>
              /\ calls'[c].result =
                   Return([t |-> "object",
                           errors |-> calls'[c].validatedFields.error.fieldErrors,
                           message |->
                             IF calls'[c].op = "createInvoice"
                             THEN "Missing Fields. Failed to create Invoice."
                             ELSE "Missing Fields. Failed to Update Invoice."])
              /\ ~Called(calls'[c], "sql")
              /\ ~Called(calls'[c], "revalidatePath")
              /\ ~Called(calls'[c], "redirect")
              /\ invoices' = invoices]_vars

C2_Witness ==
    \E c \in Calls, other \in Calls :
      /\ calls[c].pc = "done"
      /\ calls[c].op = "updateInvoice"
      /\ ~calls[c].validatedFields.success
      /\ DOMAIN calls[c].validatedFields.error.fieldErrors = {"status"}
      /\ calls[c].result.value.errors.status =
           <<"Invalid enum value. Expected 'pending' | 'paid', received 'overdue'">>
      /\ \E r \in invoices : r.id = calls[c].id
      /\ calls[other].pc = "sql"

\* C3 as stated: every mutation action, deleteInvoice included, issues its
\* statement only after its input passed schema validation.
C3_EveryActionValidates ==
    \A c \in Calls :
      calls[c].op \in InvoiceActions
        => \A i \in Positions(calls[c], "sql") : PassedValidationBefore(calls[c], i)

\* C3 as amended: createInvoice and updateInvoice issue their statement only
\* after the form passed schema validation (and the form meets the schema);
\* deleteInvoice issues its DELETE as its first call, with no validation.
C3_FormActionsValidate ==
    \A c \in Calls :
      /\ calls[c].op \in FormActions
           => \A i \in Positions(calls[c], "sql") :
                /\ PassedValidationBefore(calls[c], i)
                /\ MeetsSchema(calls[c].formData)
      /\ calls[c].op = "deleteInvoice"
           => /\ ~Called(calls[c], "safeParse")
              /\ calls[c].trace[1] = <<"sql", "DELETE">>

C3_Witness ==
    \E c \in Calls, other \in Calls :
      /\ calls[c].op = "updateInvoice"
      /\ calls[c].pc = "sql"
      /\ calls[c].trace = <<<<"safeParse", "success">>, <<"sql", "UPDATE">>>>
      /\ calls[other].op = "deleteInvoice"
      /\ calls[other].pc = "sql"

\* C4: when the statement fails, the action returns its own 'Database
\* Error' message as a value; nothing is thrown to the caller, nothing is
\* revalidated and nothing redirects.
C4_FailedStatementReturnsMessage ==
    \A c \in Calls :
      (calls[c].op \in InvoiceActions /\ Called(calls[c], "rejected"))
        => /\ ~Called(calls[c], "revalidatePath")
           /\ ~Called(calls[c], "redirect")
           /\ calls[c].pc = "done"
           /\ calls[c].result =
                Return([t |-> "object",
                        message |->
                          CASE calls[c].op = "createInvoice" ->
                                 "Database Error: Failed to create Invoice."
                            [] calls[c].op = "updateInvoice" ->
                                 "Database Error: Failed to Update Invoice."
                            [] calls[c].op = "deleteInvoice" ->
                                 "Database Error: Failed to Delete Invoice."])

C4_Witness ==
    \E c \in Calls, other \in Calls :
      /\ calls[c].pc = "done"
      /\ calls[c].op = "deleteInvoice"
      /\ Called(calls[c], "rejected")
      /\ \E r \in invoices : r.id = calls[c].id
      /\ calls[other].pc = "sql"

\* C5: authenticate returns 'Invalid credentials...' exactly when signIn
\* throws an AuthError of type CredentialsSignin, 'Something went wrong...'
\* for any other AuthError, rethrows any other thrown value unchanged, and
\* returns nothing when signIn completes.
C5_AuthenticateMapsOutcome ==
    \A c \in Calls :
      (calls[c].pc = "done" /\ calls[c].op = "authenticate")
        => /\ calls[c].result = Return(Str("Invalid credentials. Please try again."))
                <=> (calls[c].error.auth /\ calls[c].error.type = "CredentialsSignin")
           /\ (calls[c].error.auth /\ calls[c].error.type # "CredentialsSignin")
                => calls[c].result =
                     Return(Str("Something went wrong. Please try again later."))
           /\ (calls[c].error # NoError /\ ~calls[c].error.auth)
                => calls[c].result = Throw(calls[c].error)
           /\ calls[c].error = NoError => calls[c].result = Return(Undefined)

C5_Witness ==
    \E c \in Calls :
      /\ calls[c].pc = "done"
      /\ calls[c].op = "authenticate"
      /\ calls[c].error = [auth |-> FALSE, type |-> "CredentialsSignin"]
      /\ calls[c].result.kind = "throw"

\* C6: the form is accepted iff customerId is a string, the amount converts
\* to a number > 0 (a missing, empty, non-numeric, zero or negative amount is
\* rejected) and status is 'pending' or 'paid'; on rejection the errors have
\* a key for exactly the fields that failed.
C6_SchemaAcceptsExactly ==
    \A c \in Calls :
      calls[c].op \in FormActions
        => /\ calls[c].validatedFields.success <=> MeetsSchema(calls[c].formData)
           /\ calls[c].formData.amount \in NoAmount
                => ~calls[c].validatedFields.success
           /\ ( /\ calls[c].formData.amount \in PositiveAmount
                /\ CustomerIdAccepted(calls[c].formData)
                /\ StatusAccepted(calls[c].formData) )
                => calls[c].validatedFields.success
           /\ ~calls[c].validatedFields.success
                => /\ calls[c].result.kind = "return"
                   /\ DOMAIN calls[c].result.value.errors
                        = FailedFields(calls[c].formData)

C6_Witness ==
    \E c \in Calls :
      /\ calls[c].pc = "done"
      /\ calls[c].op = "createInvoice"
      /\ calls[c].formData = [customerId |-> Str("c1"), amount |-> Str(<<"0", "x">>),
                              status |-> Str("overdue")]
      /\ DOMAIN calls[c].result.value.errors = {"amount", "status"}

\* C7: an invoice action issues at most one statement, calls revalidatePath
\* ('/dashboard/invoices') only after the statement succeeded, and redirects
\* only after revalidatePath; deleteInvoice never redirects.
C7_OrderOfCalls ==
    \A c \in Calls :
      calls[c].op \in InvoiceActions
        => /\ Cardinality(Positions(calls[c], "sql")) <= 1
           /\ OnlyAfter(calls[c], "revalidatePath", "resolved")
           /\ OnlyAfter(calls[c], "resolved", "sql")
           /\ \A i \in Positions(calls[c], "revalidatePath") :
                calls[c].trace[i][2] = "/dashboard/invoices"
           /\ OnlyAfter(calls[c], "redirect", "revalidatePath")
           /\ Called(calls[c], "redirect") => calls[c].op \in FormActions
           /\ calls[c].op = "deleteInvoice" => ~Called(calls[c], "redirect")

C7_Witness ==
    \E c \in Calls, other \in Calls :
      /\ calls[c].pc = "done"
      /\ calls[c].op = "deleteInvoice"
      /\ Called(calls[c], "revalidatePath")
      /\ calls[c].id < nextId
      /\ \A r \in invoices : r.id # calls[c].id
      /\ calls[other].op = "createInvoice"
      /\ Called(calls[other], "redirect")

\* C8: whenever an invoice action returns a 'Database Error: Failed to ...'
\* message, the step that took it from its statement to that return left
\* the invoices table as it was: the call wrote no row.
C8_DatabaseErrorMeansUnchanged ==
    [][\A c \in Calls :
         ( /\ Settles(c)
           /\ calls'[c].op \in InvoiceActions
           /\ calls'[c].result.kind = "return"
           /\ calls'[c].result.value.message \in
                {"Database Error: Failed to create Invoice.",
                 "Database Error: Failed to Update Invoice.",
                 "Database Error: Failed to Delete Invoice."} )
           => invoices' = invoices]_vars

\* C9: starting from the empty table, every row has status 'pending' or
\* 'paid' and an amount > 0 equal to 100 times the amount written in the
\* form that wrote it.
C9_RowsAreValid ==
    \A r \in invoices :
      /\ r.status \in {"pending", "paid"}
      /\ IsPositive(r.amount)
      /\ HundredTimesDecimal(r.amount, DecimalOf(submitted[r.id].s))

\* C10: the statement of updateInvoice(id) and deleteInvoice(id) leaves the
\* rows with another id as they are, updateInvoice keeps the id and date of
\* the matching row, and when no row has the id the table is unchanged and
\* the action still takes its success path (deleteInvoice returns 'Deleted
\* Invoice').
C10_OtherRowsUntouched ==
    [][\A c \in Calls :
         ( /\ Settles(c)
           /\ calls[c].op \in {"updateInvoice", "deleteInvoice"}
           /\ Called(calls'[c], "resolved") )
           => /\ \A r \in invoices : r.id # calls[c].id => r \in invoices'
              /\ \A r \in invoices' : r.id # calls[c].id => r \in invoices
              /\ (\A r \in invoices : r.id # calls[c].id) => invoices' = invoices
              /\ calls[c].op = "updateInvoice"
                   => /\ Cardinality(invoices') = Cardinality(invoices)
                      /\ \A r \in invoices :
                           r.id = calls[c].id
                             => \E w \in invoices' :
                                  w.id = r.id /\ w.date = r.date
                      /\ Called(calls'[c], "revalidatePath")
                      /\ Called(calls'[c], "redirect")
              /\ calls[c].op = "deleteInvoice"
                   => calls'[c].result =
                        Return([t |-> "object", message |-> "Deleted Invoice"])]_vars

C10_Witness ==
    \E c \in Calls :
      /\ calls[c].pc = "done"
      /\ calls[c].op = "updateInvoice"
      /\ Called(calls[c], "resolved")
      /\ \E r \in invoices, w \in invoices :
           /\ r.id = calls[c].id
           /\ r.amount = calls[c].stmt.amount
           /\ r.status = calls[c].stmt.status
           /\ w.id # r.id
           /\ w.date # r.date
           /\ w.status # r.status
           /\ w.amount # r.amount

====
